---- MODULE Spec2Model ----
(***************************************************************************)
(* Model of src/main.py: the address-book assistant bot.                   *)
(*                                                                         *)
(* Text is modelled as a sequence of one-character strings, so that the    *)
(* validators (str.isdigit, len, strip, strptime/strftime) are computed    *)
(* the way the code computes them.  Fixed messages are a one-element       *)
(* sequence holding the whole message.                                     *)
(***************************************************************************)
EXTENDS Integers, Sequences, FiniteSets, TLC

VARIABLES
    pc,        \* "init" | "running" | "stopped" | "crashed": where main() is
    book,      \* AddressBook.data: the records in insertion order
    file,      \* content of addressbook.pkl
    out,       \* what the last command printed (<<>>: nothing yet)
    raised,    \* the exception that left the last call uncaught ("none")
    last,      \* the last input line, as its whitespace-separated parts
    prev,      \* book as it was before the last command
    today,     \* date.today()
    plan       \* the last outcome of get_upcoming_birthdays

vars == <<pc, book, file, out, raised, last, prev, today, plan>>

(***************************************************************************)
(* Bounds of the model.                                                    *)
(***************************************************************************)
MaxPhones == 2

(***************************************************************************)
(* Python exceptions and results.                                          *)
(***************************************************************************)
Ok(v) == [exc |-> "none", msg |-> <<>>, val |-> v]

Raise(e, m) == [exc |-> e, msg |-> m, val |-> <<>>]

None == <<>>

(***************************************************************************)
(* Characters.                                                             *)
(***************************************************************************)
AsciiDigit == {"0", "1", "2", "3", "4", "5", "6", "7", "8", "9"}

\* Characters outside 0-9 for which str.isdigit() is true.  "SUP2" stands
\* for the single character U+00B2 (SUPERSCRIPT TWO).
OtherDigit == {"SUP2"}

Whitespace == {" "}

DigitVal(c) ==
    CASE c = "0" -> 0 [] c = "1" -> 1 [] c = "2" -> 2 [] c = "3" -> 3
      [] c = "4" -> 4 [] c = "5" -> 5 [] c = "6" -> 6 [] c = "7" -> 7
      [] c = "8" -> 8 [] c = "9" -> 9

DigitChar(n) ==
    CASE n = 0 -> "0" [] n = 1 -> "1" [] n = 2 -> "2" [] n = 3 -> "3"
      [] n = 4 -> "4" [] n = 5 -> "5" [] n = 6 -> "6" [] n = 7 -> "7"
      [] n = 8 -> "8" [] n = 9 -> "9"

\* str.isdigit(): non-empty and every character is a digit character.
isdigit(s) == Len(s) > 0 /\ \A i \in 1..Len(s) : s[i] \in AsciiDigit \cup OtherDigit

RECURSIVE lstrip(_)
lstrip(s) == IF s # <<>> /\ Head(s) \in Whitespace THEN lstrip(Tail(s)) ELSE s

RECURSIVE rstrip(_)
rstrip(s) ==
    IF s # <<>> /\ s[Len(s)] \in Whitespace
    THEN rstrip(SubSeq(s, 1, Len(s) - 1))
    ELSE s

strip(s) == rstrip(lstrip(s))

\* int(s) for a string of ASCII digits.
RECURSIVE ToInt(_)
ToInt(s) ==
    IF s = <<>> THEN 0
    ELSE 10 * ToInt(SubSeq(s, 1, Len(s) - 1)) + DigitVal(s[Len(s)])

\* n written with at least w digits, zero padded (the %02d / %04d of strftime).
RECURSIVE Pad(_, _)
Pad(n, w) ==
    IF w <= 1 /\ n < 10 THEN <<DigitChar(n)>>
    ELSE Append(Pad(n \div 10, w - 1), DigitChar(n % 10))

(***************************************************************************)
(* Field validators.                                                       *)
(***************************************************************************)
\* Name.__init__
Name(value) ==
    IF strip(value) = <<>>
    THEN Raise("ValueError", <<"Name cannot be empty.">>)
    ELSE Ok(strip(value))

\* Phone.__init__
Phone(value) ==
    IF ~isdigit(value) \/ Len(value) # 10
    THEN Raise("ValueError", <<"Phone must contain 10 digits.">>)
    ELSE Ok(value)

(***************************************************************************)
(* The calendar of datetime.date.                                          *)
(***************************************************************************)
is_leap(y) == y % 4 = 0 /\ (y % 100 # 0 \/ y % 400 = 0)

days_in_month(y, m) ==
    IF m = 2 THEN (IF is_leap(y) THEN 29 ELSE 28)
    ELSE IF m \in {4, 6, 9, 11} THEN 30 ELSE 31

days_before_year(y) ==
    (y - 1) * 365 + ((y - 1) \div 4) - ((y - 1) \div 100) + ((y - 1) \div 400)

RECURSIVE days_before_month(_, _)
days_before_month(y, m) ==
    IF m = 1 THEN 0 ELSE days_before_month(y, m - 1) + days_in_month(y, m - 1)

\* date(year, month, day): ValueError unless it is a day of the calendar.
date(y, m, d) ==
    IF y < 1 \/ y > 9999
    THEN Raise("ValueError", <<"year is out of range">>)
    ELSE IF m < 1 \/ m > 12
    THEN Raise("ValueError", <<"month must be in 1..12">>)
    ELSE IF d < 1 \/ d > days_in_month(y, m)
    THEN Raise("ValueError", <<"day is out of range for month">>)
    ELSE Ok([year |-> y, month |-> m, day |-> d])

\* date.toordinal(): 1 is 0001-01-01.
toordinal(dt) == days_before_year(dt.year) + days_before_month(dt.year, dt.month) + dt.day

\* date.weekday() of the day with this ordinal: 0 is Monday, 6 is Sunday.
weekday(ord) == (ord + 6) % 7

\* strftime("%A")
DayName(ord) ==
    CASE weekday(ord) = 0 -> "Monday"
      [] weekday(ord) = 1 -> "Tuesday"
      [] weekday(ord) = 2 -> "Wednesday"
      [] weekday(ord) = 3 -> "Thursday"
      [] weekday(ord) = 4 -> "Friday"
      [] weekday(ord) = 5 -> "Saturday"
      [] weekday(ord) = 6 -> "Sunday"

(***************************************************************************)
(* Birthday: datetime.strptime(value, "%d.%m.%Y") and strftime.            *)
(***************************************************************************)
\* The fields of s between the occurrences of sep (str.split(sep)).
RECURSIVE Split(_, _)
Split(s, sep) ==
    IF \A i \in 1..Len(s) : s[i] # sep THEN <<s>>
    ELSE LET k == CHOOSE i \in 1..Len(s) :
                      s[i] = sep /\ \A j \in 1..(i - 1) : s[j] # sep
         IN  <<SubSeq(s, 1, k - 1)>> \o Split(SubSeq(s, k + 1, Len(s)), sep)

IsNumeral(s) == Len(s) > 0 /\ \A i \in 1..Len(s) : s[i] \in AsciiDigit

\* Whether value matches the pattern of "%d.%m.%Y": a day 1..31 and a month
\* 1..12 of one or two digits, a year of exactly four digits.
MatchesFormat(value) ==
    LET f == Split(value, ".")
    IN  /\ Len(f) = 3
        /\ IsNumeral(f[1]) /\ Len(f[1]) \in {1, 2} /\ ToInt(f[1]) \in 1..31
        /\ IsNumeral(f[2]) /\ Len(f[2]) \in {1, 2} /\ ToInt(f[2]) \in 1..12
        /\ IsNumeral(f[3]) /\ Len(f[3]) = 4

\* datetime.strptime(value, "%d.%m.%Y").date()
strptime(value) ==
    IF ~MatchesFormat(value)
    THEN Raise("ValueError", <<"time data does not match format">>)
    ELSE LET f == Split(value, ".")
         IN  date(ToInt(f[3]), ToInt(f[2]), ToInt(f[1]))

\* dt.strftime("%d.%m.%Y"), for the years 1000..9999
strftime(dt) == Pad(dt.day, 2) \o <<".">> \o Pad(dt.month, 2) \o <<".">> \o Pad(dt.year, 4)

\* Birthday.__init__: the stored value is the normalised text.
Birthday(value) ==
    LET dt == strptime(value)
    IN  IF dt.exc = "ValueError"
        THEN Raise("ValueError", <<"Invalid date format. Use DD.MM.YYYY">>)
        ELSE Ok(strftime(dt.val))

\* Birthday.as_date, on the stored value
as_date(value) == strptime(value)

(***************************************************************************)
(* Record: [name, phones, birthday]; birthday is None or the stored text.  *)
(***************************************************************************)
\* Record.__init__
Record(name) ==
    LET n == Name(name)
    IN  IF n.exc # "none" THEN n
        ELSE Ok([name |-> n.val, phones |-> <<>>, birthday |-> None])

\* add_phone inserting at the front
add_phone_front(record, phone) ==
    LET p == Phone(phone)
    IN  IF p.exc # "none" THEN p
        ELSE Ok([record EXCEPT !.phones = <<p.val>> \o @])

\* Record.add_phone
add_phone(record, phone) ==
    LET p == Phone(phone)
    IN  IF p.exc # "none" THEN p
        ELSE Ok([record EXCEPT !.phones = Append(@, p.val)])

\* The position of the first phone equal to phone, 0 when there is none
\* (the "for p in self.phones: if p.value == phone" loop).
first_match(phones, phone) ==
    IF \E i \in 1..Len(phones) : phones[i] = phone
    THEN CHOOSE i \in 1..Len(phones) :
             phones[i] = phone /\ \A j \in 1..(i - 1) : phones[j] # phone
    ELSE 0

\* edit_phone without the return inside the loop: every match is replaced
edit_phone_all(record, old_phone, new_phone) ==
    LET i == first_match(record.phones, old_phone)
    IN  IF i = 0 THEN Ok(<<record, FALSE>>)
        ELSE LET p == Phone(new_phone)
             IN  IF p.exc # "none" THEN p
                 ELSE Ok(<<[record EXCEPT !.phones =
                               [k \in 1..Len(@) |->
                                   IF @[k] = old_phone THEN p.val ELSE @[k]]],
                           TRUE>>)

\* Record.edit_phone: val is <<the record afterwards, the returned boolean>>.
edit_phone(record, old_phone, new_phone) ==
    LET i == first_match(record.phones, old_phone)
    IN  IF i = 0 THEN Ok(<<record, FALSE>>)
        ELSE LET p == Phone(new_phone)
             IN  IF p.exc # "none" THEN p
                 ELSE Ok(<<[record EXCEPT !.phones[i] = p.val], TRUE>>)

\* Record.add_birthday (named apart from the add_birthday handler)
Record_add_birthday(record, birthday_text) ==
    LET b == Birthday(birthday_text)
    IN  IF b.exc # "none" THEN b
        ELSE Ok([record EXCEPT !.birthday = b.val])

\* Record.__str__
Join(seqs, sep) ==
    LET RECURSIVE J(_)
        J(i) == IF i > Len(seqs) THEN <<>>
                ELSE IF i = 1 THEN seqs[1] \o J(2)
                ELSE sep \o seqs[i] \o J(i + 1)
    IN  J(1)

Record_str(record) ==
    <<"Contact name: ">> \o record.name
    \o <<", phones: ">>
    \o (IF record.phones # <<>> THEN Join(record.phones, <<"; ">>) ELSE <<"-">>)
    \o <<", birthday: ">>
    \o (IF record.birthday # None THEN record.birthday ELSE <<"-">>)

(***************************************************************************)
(* AddressBook: data is the sequence of records in insertion order; the    *)
(* key of a record is its name (add_record stores it under name.value).    *)
(***************************************************************************)
\* AddressBook.find: the position of the record, 0 for None.
find(data, name) ==
    IF \E i \in 1..Len(data) : data[i].name = name
    THEN CHOOSE i \in 1..Len(data) : data[i].name = name
    ELSE 0

\* AddressBook.add_record
add_record(data, record) ==
    IF find(data, record.name) # 0
    THEN [data EXCEPT ![find(data, record.name)] = record]
    ELSE Append(data, record)

\* result.setdefault(weekday, []).append(name): result is the dict as the
\* sequence of its [day, names] items in insertion order.
setdefault_append(result, day, name) ==
    IF \E i \in 1..Len(result) : result[i].day = day
    THEN LET i == CHOOSE k \in 1..Len(result) : result[k].day = day
         IN  [result EXCEPT ![i].names = Append(@, name)]
    ELSE Append(result, [day |-> day, names |-> <<name>>])

\* today <= bday_this_year < end_day, on ordinals
in_window(t, d) == t <= d /\ d < t + 7

\* congratulation_day with the two shifts swapped
congratulation_day_swapped(d) ==
    IF weekday(d) = 5 THEN d + 1
    ELSE IF weekday(d) = 6 THEN d + 2
    ELSE d

\* congratulation_day: a Saturday moves 2 days on, a Sunday 1 day on.
congratulation_day(d) ==
    IF weekday(d) = 5 THEN d + 2
    ELSE IF weekday(d) = 6 THEN d + 1
    ELSE d

\* The loop of get_upcoming_birthdays from record i on.  acc.result is the
\* dict built so far, acc.days the bday_this_year (occurrence) and the
\* congratulation_day (day) of each appended name, as ordinals.
RECURSIVE upcoming_from(_, _, _, _)
upcoming_from(data, i, t, acc) ==
    IF i > Len(data) THEN Ok(acc)
    ELSE IF data[i].birthday = None THEN upcoming_from(data, i + 1, t, acc)
    ELSE
      LET bday == as_date(data[i].birthday)
      IN  IF bday.exc # "none" THEN bday
          ELSE
            LET this == date(t.year, bday.val.month, bday.val.day)
            IN  IF this.exc # "none" THEN this
                ELSE
                  LET bday_this_year ==
                          IF toordinal(this.val) < toordinal(t)
                          THEN date(t.year + 1, bday.val.month, bday.val.day)
                          ELSE this
                  IN  IF bday_this_year.exc # "none" THEN bday_this_year
                      ELSE
                        LET d == toordinal(bday_this_year.val)
                            c == congratulation_day(d)
                        IN  IF in_window(toordinal(t), d)
                            THEN upcoming_from(data, i + 1, t,
                                   [result |-> setdefault_append(acc.result, DayName(c),
                                                                 data[i].name),
                                    days |-> Append(acc.days,
                                                    [name |-> data[i].name,
                                                     occurrence |-> d, day |-> c])])
                            ELSE upcoming_from(data, i + 1, t, acc)

\* AddressBook.get_upcoming_birthdays, with date.today() = t
get_upcoming_birthdays(data, t) ==
    upcoming_from(data, 1, t, [result |-> <<>>, days |-> <<>>])

(***************************************************************************)
(* Persistence.  A file is [kind, cls, state]: kind "absent", "corrupt"    *)
(* (bytes that are no pickle) or "pickle" of an object of class cls.  The  *)
(* pickle of a book holds, per key, the __dict__ of the record with each   *)
(* field as the __dict__ of its Field object.                              *)
(***************************************************************************)
Absent == [kind |-> "absent", cls |-> "", state |-> <<>>]

Corrupt == [kind |-> "corrupt", cls |-> "", state |-> <<>>]

OtherObject == [kind |-> "pickle", cls |-> "dict", state |-> <<>>]

FieldState(v) == [value |-> v]

RECURSIVE WrapAll(_)
WrapAll(values) ==
    IF values = <<>> THEN <<>>
    ELSE <<FieldState(Head(values))>> \o WrapAll(Tail(values))

RECURSIVE UnwrapAll(_)
UnwrapAll(states) ==
    IF states = <<>> THEN <<>>
    ELSE <<Head(states).value>> \o UnwrapAll(Tail(states))

RecordState(record) ==
    [name |-> FieldState(record.name),
     phones |-> WrapAll(record.phones),
     birthday |-> IF record.birthday = None THEN <<>>
                  ELSE <<FieldState(record.birthday)>>]

\* a load that loses the birthday
RecordFromState_no_birthday(st) ==
    [name |-> st.name.value, phones |-> UnwrapAll(st.phones), birthday |-> None]

RecordFromState(st) ==
    [name |-> st.name.value,
     phones |-> UnwrapAll(st.phones),
     birthday |-> IF st.birthday = <<>> THEN None ELSE st.birthday[1].value]

RECURSIVE DictState(_)
DictState(data) ==
    IF data = <<>> THEN <<>>
    ELSE <<[key |-> Head(data).name, rec |-> RecordState(Head(data))]>>
         \o DictState(Tail(data))

\* pickle.dump(book, f)
dump(data) == [kind |-> "pickle", cls |-> "AddressBook", state |-> DictState(data)]

\* pickle.load(f) of a pickled AddressBook
RECURSIVE load(_)
load(state) ==
    IF state = <<>> THEN <<>>
    ELSE <<RecordFromState(Head(state).rec)>> \o load(Tail(state))

\* save_data
save_data(data) == dump(data)

\* The body of the try block of load_data.
load_data_try(f) ==
    IF f.kind = "absent" THEN Raise("FileNotFoundError", <<>>)
    ELSE IF f.kind = "corrupt" THEN Raise("UnpicklingError", <<>>)
    ELSE IF f.cls = "AddressBook" THEN Ok(load(f.state))
    ELSE Ok(<<>>)

\* load_data: only FileNotFoundError is caught.
load_data(f) ==
    LET r == load_data_try(f)
    IN  IF r.exc = "FileNotFoundError" THEN Ok(<<>>) ELSE r

(***************************************************************************)
(* Handlers.  A handler's outcome is [exc, msg, val, book]: the exception  *)
(* it raised ("none": it returned val) and the book it leaves behind.      *)
(***************************************************************************)
Return(v, data) == [exc |-> "none", msg |-> <<>>, val |-> v, book |-> data]

Throw(r, data) == [exc |-> r.exc, msg |-> r.msg, val |-> <<>>, book |-> data]

\* "a, b, *_ = args" with n names before the star
unpack(args, n) ==
    IF Len(args) < n
    THEN Raise("ValueError",
               <<"not enough values to unpack (expected at least ", DigitChar(n),
                 ", got ", DigitChar(Len(args)), ")">>)
    ELSE Ok(args)

\* input_error without its "except ValueError" clause
input_error_no_value_error(r) ==
    IF r.exc = "none" THEN r
    ELSE IF r.exc = "KeyError" THEN Return(<<"Contact not found.">>, r.book)
    ELSE IF r.exc = "IndexError"
    THEN Return(<<"Enter the argument for the command">>, r.book)
    ELSE r

\* input_error: the decorator's try/except around a handler's outcome.
input_error(r) ==
    IF r.exc = "none" THEN r
    ELSE IF r.exc = "KeyError" THEN Return(<<"Contact not found.">>, r.book)
    ELSE IF r.exc = "ValueError"
    THEN Return(IF r.msg # <<>> THEN r.msg ELSE <<"Give me correct data please.">>,
                r.book)
    ELSE IF r.exc = "IndexError"
    THEN Return(<<"Enter the argument for the command">>, r.book)
    ELSE r

\* add_contact validating the phone before it creates the record
add_contact_validate_first(args, data) ==
    LET u == unpack(args, 2)
    IN  IF u.exc # "none" THEN Throw(u, data)
        ELSE
          LET name == args[1]
              phone == args[2]
              found == find(data, name)
              fresh == Record(name)
              valid == Phone(phone)
          IN  IF found = 0 /\ fresh.exc # "none" THEN Throw(fresh, data)
              ELSE IF phone # <<>> /\ valid.exc # "none" THEN Throw(valid, data)
              ELSE
                LET data1 == IF found = 0 THEN add_record(data, fresh.val) ELSE data
                    i == IF found = 0 THEN find(data1, fresh.val.name) ELSE found
                    message == IF found = 0 THEN <<"Contact added.">>
                               ELSE <<"Contact updated.">>
                IN  IF phone = <<>> THEN Return(message, data1)
                    ELSE Return(message, [data1 EXCEPT ![i].phones = Append(@, valid.val)])

\* add_contact, undecorated
add_contact(args, data) ==
    LET u == unpack(args, 2)
    IN  IF u.exc # "none" THEN Throw(u, data)
        ELSE
          LET name == args[1]
              phone == args[2]
              found == find(data, name)
              fresh == Record(name)
          IN  IF found = 0 /\ fresh.exc # "none" THEN Throw(fresh, data)
              ELSE
                LET data1 == IF found = 0 THEN add_record(data, fresh.val) ELSE data
                    i == IF found = 0 THEN find(data1, fresh.val.name) ELSE found
                    message == IF found = 0 THEN <<"Contact added.">>
                               ELSE <<"Contact updated.">>
                IN  IF phone = <<>> THEN Return(message, data1)
                    ELSE LET r == add_phone(data1[i], phone)
                         IN  IF r.exc # "none" THEN Throw(r, data1)
                             ELSE Return(message, [data1 EXCEPT ![i] = r.val])

\* change_contact, undecorated
change_contact(args, data) ==
    LET u == unpack(args, 3)
    IN  IF u.exc # "none" THEN Throw(u, data)
        ELSE
          LET i == find(data, args[1])
          IN  IF i = 0 THEN Throw(Raise("KeyError", <<>>), data)
              ELSE LET r == edit_phone(data[i], args[2], args[3])
                   IN  IF r.exc # "none" THEN Throw(r, data)
                       ELSE IF r.val[2]
                       THEN Return(<<"Contact updated.">>, [data EXCEPT ![i] = r.val[1]])
                       ELSE Return(<<"Old phone not found.">>, data)

\* show_phone, undecorated
show_phone(args, data) ==
    LET u == unpack(args, 1)
    IN  IF u.exc # "none" THEN Throw(u, data)
        ELSE
          LET i == find(data, args[1])
          IN  IF i = 0 THEN Throw(Raise("KeyError", <<>>), data)
              ELSE IF data[i].phones = <<>> THEN Return(<<"No phones.">>, data)
              ELSE Return(Join(data[i].phones, <<"; ">>), data)

RECURSIVE AllStr(_)
AllStr(data) ==
    IF data = <<>> THEN <<>>
    ELSE <<Record_str(Head(data))>> \o AllStr(Tail(data))

\* show_all, undecorated
show_all(data) ==
    IF data = <<>> THEN Return(<<"No contacts yet.">>, data)
    ELSE Return(Join(AllStr(data), <<"\n">>), data)

\* add_birthday, undecorated
add_birthday(args, data) ==
    LET u == unpack(args, 2)
    IN  IF u.exc # "none" THEN Throw(u, data)
        ELSE
          LET name == args[1]
              found == find(data, name)
              fresh == Record(name)
          IN  IF found = 0 /\ fresh.exc # "none" THEN Throw(fresh, data)
              ELSE
                LET data1 == IF found = 0 THEN add_record(data, fresh.val) ELSE data
                    i == IF found = 0 THEN find(data1, fresh.val.name) ELSE found
                    r == Record_add_birthday(data1[i], args[2])
                IN  IF r.exc # "none" THEN Throw(r, data1)
                    ELSE Return(<<"Birthday added.">>, [data1 EXCEPT ![i] = r.val])

\* show_birthday, undecorated
show_birthday(args, data) ==
    LET u == unpack(args, 1)
    IN  IF u.exc # "none" THEN Throw(u, data)
        ELSE
          LET i == find(data, args[1])
          IN  IF i = 0 THEN Throw(Raise("KeyError", <<>>), data)
              ELSE IF data[i].birthday # None THEN Return(data[i].birthday, data)
              ELSE Return(<<"No birthday set.">>, data)

days_order == <<"Monday", "Tuesday", "Wednesday", "Thursday", "Friday", "Saturday", "Sunday">>

\* The lines of the birthdays handler for the days of days_order from k on.
RECURSIVE result_lines(_, _)
result_lines(result, k) ==
    IF k > Len(days_order) THEN <<>>
    ELSE IF \E i \in 1..Len(result) : result[i].day = days_order[k]
    THEN LET i == CHOOSE j \in 1..Len(result) : result[j].day = days_order[k]
         IN  <<<<days_order[k], ": ">> \o Join(result[i].names, <<", ">>)>>
             \o result_lines(result, k + 1)
    ELSE result_lines(result, k + 1)

\* birthdays, undecorated; upcoming is the outcome of get_upcoming_birthdays
birthdays(args, data, upcoming) ==
    IF upcoming.exc # "none" THEN Throw(upcoming, data)
    ELSE IF upcoming.val.result = <<>> THEN Return(<<"No birthdays next week.">>, data)
    ELSE Return(Join(result_lines(upcoming.val.result, 1), <<"\n">>), data)

(***************************************************************************)
(* The command loop of main().  An input line is modelled as the list of   *)
(* its whitespace-separated parts (str.split()): the command word, then    *)
(* the arguments, each a non-empty text without whitespace.                *)
(***************************************************************************)
\* str.lower() on the command words used here
lower(w) ==
    CASE w = "ADD" -> "add"
      [] w = "Exit" -> "exit"
      [] OTHER -> w

\* parse_input, on the parts of the stripped line
parse_input(parts) ==
    IF parts = <<>> THEN [cmd |-> "", args |-> <<>>]
    ELSE [cmd |-> lower(parts[1]), args |-> Tail(parts)]

NoPlan == Ok([result |-> <<>>, days |-> <<>>])

\* print(handler(...)): the decorated handler's outcome r is printed, or
\* its exception leaves main() with a traceback.
Respond(parts, r) ==
    /\ last' = parts
    /\ prev' = book
    /\ book' = r.book
    /\ IF r.exc = "none"
       THEN pc' = "running" /\ out' = r.val /\ raised' = "none"
       ELSE pc' = "crashed" /\ out' = <<>> /\ raised' = r.exc
    /\ UNCHANGED <<file, today>>

\* book = load_data() and the welcome lines
Start ==
    LET r == load_data(file)
    IN  /\ last' = <<>>
        /\ prev' = book
        /\ IF r.exc = "none"
           THEN /\ pc' = "running"
                /\ book' = r.val
                /\ out' = <<"Welcome to the assistant bot!">>
                /\ raised' = "none"
           ELSE /\ pc' = "crashed"
                /\ book' = <<>>
                /\ out' = <<>>
                /\ raised' = r.exc
        /\ UNCHANGED <<file, today, plan>>

\* The first start of the program.
Launch == pc = "init" /\ Start

\* A later start, after close/exit ended the session before.
Relaunch == pc = "stopped" /\ Start

\* close | exit: save_data(book), "Good bye!", break.  book keeps the store
\* as it was in memory at the moment of exit.
Exit(L) ==
    /\ pc = "running"
    /\ \E parts \in L :
          /\ parse_input(parts).cmd \in {"close", "exit"}
          /\ file' = save_data(book)
          /\ pc' = "stopped"
          /\ out' = <<"Good bye!">>
          /\ last' = parts
          /\ prev' = book
          /\ UNCHANGED <<book, raised, today, plan>>

Hello(L) ==
    /\ pc = "running"
    /\ \E parts \in L :
          /\ parse_input(parts).cmd = "hello"
          /\ Respond(parts, Return(<<"How can I help you?">>, book))
          /\ UNCHANGED plan

Help(L) ==
    /\ pc = "running"
    /\ \E parts \in L :
          /\ parse_input(parts).cmd = "help"
          /\ Respond(parts, Return(<<"Available commands: ...">>, book))
          /\ UNCHANGED plan

\* The model stops adding phones to a record that holds MaxPhones of them.
Add(L) ==
    /\ pc = "running"
    /\ \E parts \in L :
          LET p == parse_input(parts)
          IN  /\ p.cmd = "add"
              /\ \A i \in 1..Len(book) :
                    (Len(p.args) >= 1 /\ book[i].name = p.args[1])
                        => Len(book[i].phones) < MaxPhones
              /\ Respond(parts, input_error(add_contact(p.args, book)))
              /\ UNCHANGED plan

Change(L) ==
    /\ pc = "running"
    /\ \E parts \in L :
          LET p == parse_input(parts)
          IN  /\ p.cmd = "change"
              /\ Respond(parts, input_error(change_contact(p.args, book)))
              /\ UNCHANGED plan

ShowPhone(L) ==
    /\ pc = "running"
    /\ \E parts \in L :
          LET p == parse_input(parts)
          IN  /\ p.cmd = "phone"
              /\ Respond(parts, input_error(show_phone(p.args, book)))
              /\ UNCHANGED plan

ShowAll(L) ==
    /\ pc = "running"
    /\ \E parts \in L :
          /\ parse_input(parts).cmd = "all"
          /\ Respond(parts, input_error(show_all(book)))
          /\ UNCHANGED plan

AddBirthday(L) ==
    /\ pc = "running"
    /\ \E parts \in L :
          LET p == parse_input(parts)
          IN  /\ p.cmd = "add-birthday"
              /\ Respond(parts, input_error(add_birthday(p.args, book)))
              /\ UNCHANGED plan

ShowBirthday(L) ==
    /\ pc = "running"
    /\ \E parts \in L :
          LET p == parse_input(parts)
          IN  /\ p.cmd = "show-birthday"
              /\ Respond(parts, input_error(show_birthday(p.args, book)))
              /\ UNCHANGED plan

Birthdays(L) ==
    /\ pc = "running"
    /\ \E parts \in L :
          LET p == parse_input(parts)
              upcoming == get_upcoming_birthdays(book, today)
          IN  /\ p.cmd = "birthdays"
              /\ plan' = upcoming
              /\ Respond(parts, input_error(birthdays(p.args, book, upcoming)))

\* An empty line: continue, nothing is printed.
Empty(L) ==
    /\ pc = "running"
    /\ \E parts \in L :
          /\ parse_input(parts).cmd = ""
          /\ last' = parts
          /\ prev' = book
          /\ out' = <<>>
          /\ UNCHANGED <<pc, book, file, raised, today, plan>>

Commands ==
    {"close", "exit", "hello", "help", "add", "change", "phone", "all",
     "add-birthday", "show-birthday", "birthdays", ""}

Invalid(L) ==
    /\ pc = "running"
    /\ \E parts \in L :
          /\ parse_input(parts).cmd \notin Commands
          /\ Respond(parts, Return(<<"Invalid command.">>, book))
          /\ UNCHANGED plan

(***************************************************************************)
(* Inputs.                                                                 *)
(***************************************************************************)
NameA == <<"a">>

NameB == <<"b">>

PhoneA == <<"0", "5", "0", "1", "2", "3", "4", "5", "6", "7">>

PhoneB == <<"0", "6", "7", "7", "6", "5", "4", "3", "2", "1">>

PhoneShort == <<"1", "2", "3">>

PhoneLong == <<"0", "5", "0", "1", "2", "3", "4", "5", "6", "7", "8">>

PhoneAlpha == <<"0", "5", "0", "1", "2", "3", "4", "5", "6", "x">>

PhoneSup == <<"SUP2", "SUP2", "SUP2", "SUP2", "SUP2", "SUP2", "SUP2", "SUP2", "SUP2", "SUP2">>

\* "DD.MM.YYYY" from the digits of day, month and year
DateText(dd, mm, yyyy) == dd \o <<".">> \o mm \o <<".">> \o yyyy

Feb29 == DateText(<<"2", "9">>, <<"0", "2">>, <<"2", "0", "0", "0">>)

Mar3 == DateText(<<"3">>, <<"3">>, <<"1", "9", "9", "0">>)

Feb30 == DateText(<<"3", "0">>, <<"0", "2">>, <<"2", "0", "0", "0">>)

IsoDate == <<"2", "0", "0", "0", "-", "0", "2", "-", "2", "9">>

Day(y, m, d) == [year |-> y, month |-> m, day |-> d]

Names == {NameA, NameB}

\* add, change, phone: the first name with both phones, the second with one.
PhoneLines ==
    {<<"add">>, <<"add", NameA>>, <<"ADD", NameA, PhoneA>>,
     <<"add", NameB, PhoneA, PhoneB>>,
     <<"change">>, <<"change", NameA>>, <<"change", NameA, PhoneA>>,
     <<"change", NameA, PhoneA, PhoneB, PhoneA>>,
     <<"phone">>, <<"phone", NameA>>, <<"phone", NameB>>}
    \cup {<<"add", NameA, p>> : p \in {PhoneA, PhoneB, PhoneShort, PhoneAlpha}}
    \cup {<<"add", NameB, p>> : p \in {PhoneA, PhoneLong}}
    \cup {<<"change", NameA, o, p>> : o \in {PhoneA, PhoneB},
                                      p \in {PhoneA, PhoneB, PhoneLong}}
    \cup {<<"change", NameB, PhoneA, p>> : p \in {PhoneA, PhoneShort}}

BirthdayLines ==
    {<<"add-birthday">>, <<"add-birthday", NameA>>,
     <<"add-birthday", NameA, Feb29, NameB>>,
     <<"show-birthday">>, <<"show-birthday", NameA>>, <<"show-birthday", NameB>>,
     <<"birthdays">>}
    \cup {<<"add-birthday", NameA, d>> : d \in {Feb29, Mar3, Feb30, IsoDate}}
    \cup {<<"add-birthday", NameB, d>> : d \in {Feb29, Feb30}}

OtherLines ==
    {<<>>, <<"hello">>, <<"help">>, <<"all">>, <<"remove">>,
     <<"close">>, <<"exit">>, <<"Exit">>}

Lines == PhoneLines \cup BirthdayLines \cup OtherLines

Init ==
    /\ pc = "init"
    /\ book = <<>>
    /\ file = Absent
    /\ out = <<>>
    /\ raised = "none"
    /\ last = <<>>
    /\ prev = <<>>
    /\ today = Day(2023, 3, 1)
    /\ plan = NoPlan

Next ==
    \/ Launch
    \/ Exit(Lines)
    \/ Hello(Lines)
    \/ Help(Lines)
    \/ Add(Lines)
    \/ Change(Lines)
    \/ ShowPhone(Lines)
    \/ ShowAll(Lines)
    \/ AddBirthday(Lines)
    \/ ShowBirthday(Lines)
    \/ Birthdays(Lines)
    \/ Empty(Lines)
    \/ Invalid(Lines)

Spec == Init /\ [][Next]_vars

(***************************************************************************)
(* Sessions: the program is started again after close/exit, on the file    *)
(* the session before left; the first start finds no file, a file that is  *)
(* no pickle, or the pickle of some other object.                          *)
(***************************************************************************)
PersistLines ==
    {<<"add", NameA, PhoneA>>, <<"add", NameA, PhoneB>>, <<"add", NameB, PhoneA>>,
     <<"add-birthday", NameA, Mar3>>, <<"add-birthday", NameB, Feb29>>,
     <<"close">>, <<"exit">>}

InitPersist ==
    /\ pc = "init"
    /\ book = <<>>
    /\ file \in {Absent, Corrupt, OtherObject}
    /\ out = <<>>
    /\ raised = "none"
    /\ last = <<>>
    /\ prev = <<>>
    /\ today = Day(2023, 3, 1)
    /\ plan = NoPlan

NextPersist ==
    \/ Launch
    \/ Relaunch
    \/ Exit(PersistLines)
    \/ Add(PersistLines)
    \/ AddBirthday(PersistLines)

SpecPersist == InitPersist /\ [][NextPersist]_vars

(***************************************************************************)
(* Dates: birthdays around the turn of the year and the end of February,   *)
(* asked for on every day of a week and on days near 29 February.          *)
(***************************************************************************)
D2(n) == Pad(n, 2)

Y1990 == <<"1", "9", "9", "0">>

DateTexts ==
    {DateText(D2(25), D2(12), Y1990), DateText(D2(30), D2(12), Y1990),
     DateText(D2(31), D2(12), Y1990), DateText(<<"1">>, <<"1">>, Y1990),
     DateText(D2(5), D2(1), Y1990), DateText(D2(6), D2(1), Y1990),
     DateText(D2(7), D2(1), Y1990), Feb29,
     DateText(D2(1), D2(3), Y1990), Mar3, DateText(D2(4), D2(3), Y1990)}

DateLines ==
    {<<"add-birthday", NameA, d>> : d \in DateTexts}
    \cup {<<"add-birthday", NameB, d>> : d \in {Feb29, DateText(D2(31), D2(12), Y1990)}}
    \cup {<<"birthdays">>}

Todays ==
    {Day(2023, 12, d) : d \in 25..31}
    \cup {Day(2023, 2, 27), Day(2024, 2, 26), Day(2024, 3, 1)}

InitDates ==
    /\ pc = "init"
    /\ book = <<>>
    /\ file = Absent
    /\ out = <<>>
    /\ raised = "none"
    /\ last = <<>>
    /\ prev = <<>>
    /\ today \in Todays
    /\ plan = NoPlan

NextDates ==
    \/ Launch
    \/ AddBirthday(DateLines)
    \/ Birthdays(DateLines)

SpecDates == InitDates /\ [][NextDates]_vars

(***************************************************************************)
(* Digits: phones written with digit characters other than 0-9.            *)
(***************************************************************************)
DigitLines ==
    {<<"add", n, p>> : n \in Names, p \in {PhoneA, PhoneSup, PhoneShort}}
    \cup {<<"change", NameA, o, p>> : o \in {PhoneA, PhoneSup},
                                      p \in {PhoneA, PhoneSup, PhoneAlpha}}
    \cup {<<"phone", NameA>>, <<"phone", NameB>>}

NextDigits ==
    \/ Launch
    \/ Add(DigitLines)
    \/ Change(DigitLines)
    \/ ShowPhone(DigitLines)

SpecDigits == Init /\ [][NextDigits]_vars

(***************************************************************************)
(* Properties.                                                             *)
(***************************************************************************)
LastCmd == parse_input(last).cmd

LastArgs == parse_input(last).args

HasName(data, n) == \E i \in 1..Len(data) : data[i].name = n

IsTenDigits(p) == Len(p) = 10 /\ \A i \in 1..Len(p) : p[i] \in AsciiDigit

NewRecord(n) == [name |-> n, phones |-> <<>>, birthday |-> None]

\* C1: add <name> <valid phone> on a name not in the store appends exactly
\* one record for that name holding exactly that phone and prints
\* "Contact added."; on a name in the store it adds no record, appends the
\* phone to the end of that record's phones, keeps its earlier phones and
\* birthday, and prints "Contact updated.".  Other records are unchanged.
C1_AddContact ==
    (LastCmd = "add" /\ Len(LastArgs) >= 2 /\ IsTenDigits(LastArgs[2])) =>
        LET n == LastArgs[1]
            p == LastArgs[2]
        IN  IF ~HasName(prev, n)
            THEN /\ out = <<"Contact added.">>
                 /\ book = Append(prev, [NewRecord(n) EXCEPT !.phones = <<p>>])
            ELSE /\ out = <<"Contact updated.">>
                 /\ Len(book) = Len(prev)
                 /\ \A i \in 1..Len(prev) :
                       book[i] = IF prev[i].name = n
                                 THEN [prev[i] EXCEPT !.phones = Append(@, p)]
                                 ELSE prev[i]

C1_Witness ==
    /\ LastCmd = "add"
    /\ out = <<"Contact updated.">>
    /\ Len(book) = 2
    /\ book[1].phones = <<PhoneA, PhoneB>>
    /\ prev[1].phones = <<PhoneA>>
    /\ book[1].birthday # None

Required(c) ==
    CASE c = "add" -> 2
      [] c = "change" -> 3
      [] c = "phone" -> 1
      [] c = "add-birthday" -> 2
      [] c = "show-birthday" -> 1
      [] OTHER -> 0

\* C2: add, change, phone, add-birthday or show-birthday with fewer
\* arguments than required prints "Enter the argument for the command." and
\* leaves the store unchanged.
C2_MissingArgument ==
    (pc # "init" /\ Len(LastArgs) < Required(LastCmd)) =>
        /\ out = <<"Enter the argument for the command.">>
        /\ book = prev

\* C6: change <name> <old> <valid new> on a record of the store: when no
\* phone equals old it reports failure and the store is unchanged; otherwise
\* it reports success and only the first phone equal to old is replaced by
\* new, the length and order of the phones, the name, the birthday and all
\* other records staying as they were.
C6_EditPhone ==
    (LastCmd = "change" /\ Len(LastArgs) >= 3 /\ IsTenDigits(LastArgs[3])
       /\ HasName(prev, LastArgs[1])) =>
        LET old == LastArgs[2]
            new == LastArgs[3]
            i == CHOOSE k \in 1..Len(prev) : prev[k].name = LastArgs[1]
            ph == prev[i].phones
        IN  IF \A k \in 1..Len(ph) : ph[k] # old
            THEN out = <<"Old phone not found.">> /\ book = prev
            ELSE /\ out = <<"Contact updated.">>
                 /\ Len(book) = Len(prev)
                 /\ \A j \in 1..Len(prev) : j # i => book[j] = prev[j]
                 /\ book[i].name = prev[i].name
                 /\ book[i].birthday = prev[i].birthday
                 /\ Len(book[i].phones) = Len(ph)
                 /\ \E k \in 1..Len(ph) :
                       /\ ph[k] = old
                       /\ \A j \in 1..(k - 1) : ph[j] # old
                       /\ book[i].phones[k] = new
                       /\ \A j \in 1..Len(ph) : j # k => book[i].phones[j] = ph[j]

C6_Witness ==
    /\ LastCmd = "change"
    /\ out = <<"Contact updated.">>
    /\ prev[1].phones = <<PhoneA, PhoneA>>
    /\ book[1].phones = <<PhoneB, PhoneA>>

Handlers ==
    {"add", "change", "phone", "all", "add-birthday", "show-birthday", "birthdays"}

\* C8: no handler raises uncaught: after every command the loop is back at
\* its prompt with a result printed, also after birthdays with a 29 February
\* birthday in the store and a year that is not a leap year.
C8_NoUncaught ==
    /\ pc # "crashed"
    /\ raised = "none"
    /\ LastCmd \in Handlers => (pc = "running" /\ out # <<>>)

C8_Witness ==
    /\ LastCmd = "birthdays"
    /\ pc = "running"
    /\ ~is_leap(today.year)
    /\ \E i \in 1..Len(book) : book[i].birthday = Feb29
    /\ plan.exc = "ValueError"
    /\ out = <<"day is out of range for month">>

\* C10: add <name> <phone> with a phone the validator rejects, or
\* add-birthday <name> <date> with a date the validator rejects, prints the
\* validator's message; on a name not in the store it leaves a new record
\* for the name with no phones and no birthday, on a name in the store it
\* leaves the store unchanged.
C10_NotAtomic ==
    LET badPhone == /\ LastCmd = "add" /\ Len(LastArgs) >= 2
                    /\ LastArgs[2] # <<>> /\ Phone(LastArgs[2]).exc # "none"
        badDate == /\ LastCmd = "add-birthday" /\ Len(LastArgs) >= 2
                   /\ Birthday(LastArgs[2]).exc # "none"
    IN  (badPhone \/ badDate) =>
            /\ out = IF badPhone THEN <<"Phone must contain 10 digits.">>
                     ELSE <<"Invalid date format. Use DD.MM.YYYY">>
            /\ book = IF HasName(prev, LastArgs[1]) THEN prev
                      ELSE Append(prev, NewRecord(LastArgs[1]))

C10_Witness ==
    /\ LastCmd = "add"
    /\ out = <<"Phone must contain 10 digits.">>
    /\ ~HasName(prev, LastArgs[1])
    /\ Len(prev) = 1
    /\ Len(book) = 2
    /\ book[2] = NewRecord(NameB)

JustStarted == pc = "running" /\ last = <<>> /\ out = <<"Welcome to the assistant bot!">>

\* C3: load never surfaces an error: whatever the file holds, the start
\* goes on with a store, the empty store unless the file holds a store.
C3_LoadNeverRaises ==
    /\ pc # "crashed"
    /\ raised = "none"
    /\ (JustStarted /\ ~(file.kind = "pickle" /\ file.cls = "AddressBook")) => book = <<>>

\* C4: the store loaded at a start is the store that was in memory when
\* close/exit ended the session before: the same names, each record with
\* the same phones in the same order and the same birthday or none.
C4_RoundTrip == JustStarted => book = prev

C4_Witness ==
    /\ JustStarted
    /\ file.kind = "pickle"
    /\ Len(book) = 2
    /\ book[1].name = NameB
    /\ book[1].birthday = Feb29
    /\ book[2].phones = <<PhoneB, PhoneA>>
    /\ book[2].birthday = DateText(D2(3), D2(3), Y1990)

\* Whether the last call of get_upcoming_birthdays lists the name, and how
\* often it does under the key day.
Listed(n) ==
    /\ plan.exc = "none"
    /\ \E k \in 1..Len(plan.val.result) :
          \E j \in 1..Len(plan.val.result[k].names) : plan.val.result[k].names[j] = n

TimesUnder(n, day) ==
    Cardinality({<<k, j>> \in (1..Len(plan.val.result)) \X (1..Len(book)) :
                    /\ plan.val.result[k].day = day
                    /\ j <= Len(plan.val.result[k].names)
                    /\ plan.val.result[k].names[j] = n})

Times(n) ==
    Cardinality({<<k, j>> \in (1..Len(plan.val.result)) \X (1..Len(book)) :
                    /\ j <= Len(plan.val.result[k].names)
                    /\ plan.val.result[k].names[j] = n})

\* What C5 says of record i of the book.
C5_Record(i) ==
    IF book[i].birthday = None THEN ~Listed(book[i].name)
    ELSE
      LET f == Split(book[i].birthday, ".")
          dd == ToInt(f[1])
          mm == ToInt(f[2])
          t == toordinal(today)
          existsThis == dd <= days_in_month(today.year, mm)
          passed == toordinal(Day(today.year, mm, dd)) < t
          existsNext == dd <= days_in_month(today.year + 1, mm)
          d == IF passed THEN toordinal(Day(today.year + 1, mm, dd))
               ELSE toordinal(Day(today.year, mm, dd))
      IN  (existsThis /\ (passed => existsNext)) =>
              /\ Listed(book[i].name) <=> (t <= d /\ d < t + 7)
              /\ Listed(book[i].name) =>
                    /\ Times(book[i].name) = 1
                    /\ TimesUnder(book[i].name,
                                  IF weekday(d) <= 4 THEN DayName(d) ELSE "Monday") = 1

NoWeekendKey ==
    plan.exc = "none" =>
        \A k \in 1..Len(plan.val.result) :
            plan.val.result[k].day \notin {"Saturday", "Sunday"}

\* C5: after get_upcoming_birthdays, every record whose birthday's month and
\* day exist in the years involved is listed exactly when its occurrence d
\* (this year's, or next year's when this year's is before today) has
\* today <= d < today + 7, then exactly once, under the weekday of d or
\* under Monday when d is a Saturday or Sunday; a record without a birthday
\* is never listed, and no key is Saturday or Sunday.
C5_Upcoming ==
    LastCmd = "birthdays" => (NoWeekendKey /\ \A i \in 1..Len(book) : C5_Record(i))

\* The same for the calls of get_upcoming_birthdays that return.
UpcomingWhenReturns ==
    (LastCmd = "birthdays" /\ plan.exc = "none") =>
        (NoWeekendKey /\ \A i \in 1..Len(book) : C5_Record(i))

\* C7: every phone held by a record is exactly 10 decimal digits.
C7_TenDigits ==
    \A i \in 1..Len(book) :
        \A k \in 1..Len(book[i].phones) : IsTenDigits(book[i].phones[k])

\* C9 as claimed: the congratulation day of every listed contact falls
\* within the lookahead window [today, today + 7).
C9_InsideWindow ==
    plan.exc = "none" =>
        \A k \in 1..Len(plan.val.days) :
            /\ toordinal(today) <= plan.val.days[k].day
            /\ plan.val.days[k].day < toordinal(today) + 7

\* C9 amended: the birthday occurrence of every listed contact falls within
\* [today, today + 7); its congratulation day is that occurrence, or the
\* Monday after it when the occurrence is a Saturday or Sunday, and so falls
\* within [today, today + 9).
C9_Amended ==
    plan.exc = "none" =>
        \A k \in 1..Len(plan.val.days) :
            LET d == plan.val.days[k].occurrence
                c == plan.val.days[k].day
                t == toordinal(today)
            IN  /\ t <= d /\ d < t + 7
                /\ c = IF weekday(d) = 5 THEN d + 2 ELSE IF weekday(d) = 6 THEN d + 1 ELSE d
                /\ weekday(c) <= 4
                /\ t <= c /\ c < t + 9

C9_Witness ==
    /\ LastCmd = "birthdays"
    /\ plan.exc = "none"
    /\ \E k \in 1..Len(plan.val.days) :
          /\ plan.val.days[k].day = toordinal(today) + 8
          /\ weekday(plan.val.days[k].occurrence) = 5

====
